---- MODULE Spec2Model ----
(***************************************************************************)
(* Model of the voice-session hook useKuro (continuous capture with        *)
(* silence detection, remote TTS playback).                                *)
(*                                                                         *)
(* React state is modelled in two layers: the hook's state cells hold the  *)
(* latest value handed to their setter, and `rendered` is the snapshot     *)
(* the last committed render saw (what closures and effect dependency      *)
(* lists read).  `Render` commits the pending snapshot and runs the        *)
(* effects whose dependencies changed.                                     *)
(*                                                                         *)
(* Timing: a React flush takes milliseconds.  Steps that need a timer of   *)
(* 2500 ms or more, a network round trip, or the start-up of the capture   *)
(* engine therefore never overtake a pending flush (guard `Flushed`);      *)
(* back-to-back engine events and calls of the hook's operations can.      *)
(*                                                                         *)
(* The wake-word variant of the hook (frontend/hooks/useKuro.ts) has its   *)
(* own variables, `wake` and `recognitions`.  The page that uses the hook  *)
(* (frontend/app/page.tsx) adds listeningState, response and one record    *)
(* per call of handleCommand; its handlers call the hook's operations      *)
(* (kuro_start, kuro_stop, kuro_speak, kuro_cancelSpeech) and read the     *)
(* hook's state of the last render.                                        *)
(***************************************************************************)
EXTENDS Integers, Sequences, FiniteSets, TLC

\* ---------------------------------------------------------------- bounds
MaxLen == 2          \* longest raw text of a recognition event
MaxEvents == 2       \* recognition events per capture session
MaxTimers == 2       \* timer ids available to setTimeout
MaxSpeaks == 2       \* speak() calls
MaxRecognitions == 4 \* recognition objects the wake-word hook creates
MaxCommands == 1     \* commands the page handles after the initial state

\* ------------------------------------------------------------- constants
Null == "null"
NoTimer == 0         \* silenceTimerRef.current before any setTimeout
NoAudio == 0         \* audioRef.current = null
NoResponse == 0      \* response = "": no reply is displayed
NoSpeak == 0         \* the command has not called speak()
Space == " "
Chars == {Space, "a"}

RECURSIVE SeqsUpTo(_)
SeqsUpTo(n) ==
    IF n = 0 THEN {<<>>}
    ELSE LET shorter == SeqsUpTo(n - 1)
         IN  shorter \cup {Append(s, c) : s \in {t \in shorter : Len(t) = n - 1}, c \in Chars}

\* texts the recognition engine may put into an event
RawTexts == SeqsUpTo(MaxLen)

RECURSIVE TrimStart(_)
TrimStart(s) ==
    IF s = <<>> THEN s
    ELSE IF Head(s) = Space THEN TrimStart(Tail(s)) ELSE s

RECURSIVE TrimEnd(_)
TrimEnd(s) ==
    IF s = <<>> THEN s
    ELSE IF s[Len(s)] = Space THEN TrimEnd(SubSeq(s, 1, Len(s) - 1)) ELSE s

\* String.prototype.trim
Trim(s) == TrimEnd(TrimStart(s))

ErrorKinds == {"aborted", "no-speech", "network"}
UnsupportedMsg == "Speech recognition not supported in this browser"
StartFailedMsg == "Failed to start listening"
ErrorMsg(kind) == "Error: " \o kind

TimerIds == 1..MaxTimers
JobIds == 1..MaxSpeaks

VARIABLES
    recognitionRef,   \* TRUE iff the mount effect created a recognition object
    eng,              \* capture engine: "idle", "active", "stopping"
    timers,           \* ids of the pending silence timeouts
    silenceTimerRef,  \* NoTimer or the id last returned by setTimeout
    latestTextRef,
    isListening, isSpeaking, transcript, rawTranscript, error,
    rendered,         \* snapshot of the state cells seen by the last render
    jobs,             \* one record per speak() call
    audioRef,         \* NoAudio or the job whose Audio element is referenced
    sess,             \* history of the current capture session
    lastOp,           \* the last call of an operation of the hook, "onend", or
                      \* "event" for any other step
    wake,             \* state of the wake-word hook (frontend/hooks/useKuro.ts)
    recognitions,     \* the recognition objects the wake-word hook created
    listeningState,   \* page: "idle", "wake-word-detected", "processing", "responding"
    response,         \* page: NoResponse or the command whose reply is displayed
    cmds              \* page: one record per call of handleCommand

\* the variables of the continuous-capture hook
hookVars == <<recognitionRef, eng, timers, silenceTimerRef, latestTextRef,
              isListening, isSpeaking, transcript, rawTranscript, error,
              rendered, jobs, audioRef, sess, lastOp>>

\* the variables of the wake-word hook
wakeVars == <<wake, recognitions>>

\* the variables of the page (frontend/app/page.tsx); orbColor, lastCommand and
\* backendStatus are display only and left out
pageVars == <<listeningState, response, cmds>>

vars == <<hookVars, wakeVars, pageVars>>

captureVars == <<eng, timers, silenceTimerRef, latestTextRef,
                 isListening, transcript, rawTranscript, error>>
speechVars == <<isSpeaking, jobs, audioRef>>

Snapshot ==
    [isListening |-> isListening, isSpeaking |-> isSpeaking,
     transcript |-> transcript, rawTranscript |-> rawTranscript,
     listeningState |-> listeningState]

Flushed == rendered = Snapshot

NoEvent == <<"none">>

\* History of one capture session (from a successful engine start to the
\* next one): what was delivered and what ended it.
NewSession ==
    [nEvents |-> 0,        \* recognition events delivered
     lastEvt |-> NoEvent,  \* trimmed text of the last event delivered
     prevEvt |-> NoEvent,  \* trimmed text of the event before it
     fires |-> 0,          \* silence timeouts that ran
     finals |-> 0,         \* times onend committed a command
     cause |-> "none",     \* what ended the capture: timer, stop, engine, or the
                           \* kind of the recognition error
     late |-> FALSE,       \* an event was delivered after the capture was told to end
     restarted |-> FALSE,  \* start() was called while the engine was still started
     stale |-> FALSE,      \* start() was called while the capture was being ended
     playing |-> FALSE]    \* an audio element was playing when start() was called

\* One speak() call and the Audio element it creates.
NoJob ==
    [phase |-> "unused",      \* unused, fetching, failed, loading, playing,
                              \* blocked, paused, ended, error
     urlLive |-> FALSE,       \* the object URL exists and is not revoked
     meta |-> FALSE,          \* audio.duration is known
     resolved |-> "pending",  \* the promise: pending, duration, zero
     fallback |-> FALSE,      \* the 5000 ms fallback timeout is pending
     cancelled |-> FALSE]     \* cancelSpeech() ran after this call was issued

\* a mount effect that does not report a missing capability
MountErrorSilent == Null

\* the error field after the mount effect: set when the browser has no
\* speech recognition, lines 36-43
MountError == IF recognitionRef THEN Null ELSE UnsupportedMsg

\* ----------------------------------------- wake-word hook: state and texts
\* frontend/hooks/useKuro.ts.  Its effect of lines 22-85 has the dependency
\* list [isListening]: every change of isListening runs the cleanup of the
\* previous run and creates another recognition object, whose onend handler
\* reads the isListening of the render that created it.
RecognitionIds == 1..MaxRecognitions

\* a recognition object not created yet
NoRecognition == [eng |-> "none", sees |-> FALSE]

\* new SpeechRecognition() of line 36 with the handlers of lines 41-75
NewRecognition(listening) == [eng |-> "idle", sees |-> listening]

\* the wake word of lines 49-52
WakeWord == <<"k", "u", "r", "o">>

\* pieces of speech a recognition result is made of
Pieces == {<<Space>>, <<"o">>, <<"k", "u", "r">>, WakeWord, <<"K", "u", "r", "o">>}

RECURSIVE Phrases(_)
Phrases(n) ==
    IF n = 0 THEN {<<>>}
    ELSE LET shorter == Phrases(n - 1)
         IN  shorter \cup {s \o piece : s \in shorter, piece \in Pieces}

\* texts the recognition engine may put into a result of the wake-word hook
HeardTexts == Phrases(MaxLen + 1)

\* String.prototype.toLowerCase
ToLowerCase(s) == [i \in 1..Len(s) |-> IF s[i] = "K" THEN "k" ELSE s[i]]

\* positions (counted from 0) at which word occurs in s
Occurrences(s, word) ==
    {i \in 0..(Len(s) - Len(word)) : SubSeq(s, i + 1, i + Len(word)) = word}

\* String.prototype.indexOf
IndexOf(s, word) ==
    IF Occurrences(s, word) = {} THEN -1
    ELSE CHOOSE i \in Occurrences(s, word) : \A j \in Occurrences(s, word) : i <= j

\* String.prototype.includes
Includes(s, word) == Occurrences(s, word) # {}

\* String.prototype.substring(from)
Substring(s, from) == SubSeq(s, from + 1, Len(s))

\* the state of the wake-word hook after its first effect run, lines 15-78
WakeMounted ==
    [isListening |-> FALSE,
     transcript |-> <<>>,
     error |-> Null,
     recognitionRef |-> 1,   \* the recognition object in recognitionRef.current
     rendered |-> FALSE,     \* isListening as the last render saw it
     nResults |-> 0,         \* recognition results delivered
     heard |-> <<>>]         \* the text the engine puts into its results

\* the continuous-capture hook after its mount effect
InitHook ==
    /\ recognitionRef \in BOOLEAN
    /\ eng = "idle"
    /\ timers = {}
    /\ silenceTimerRef = NoTimer
    /\ latestTextRef = <<>>
    /\ isListening = FALSE
    /\ isSpeaking = FALSE
    /\ transcript = <<>>
    /\ rawTranscript = <<>>
    /\ error = MountError
    /\ rendered = Snapshot
    /\ jobs = [i \in JobIds |-> NoJob]
    /\ audioRef = NoAudio
    /\ sess = NewSession
    /\ lastOp = "mount"

\* the recognition objects after the first effect run of the wake-word hook
MountedRecognitions ==
    [r \in RecognitionIds |-> IF r = 1 THEN NewRecognition(FALSE) ELSE NoRecognition]

\* One call of handleCommand, page.tsx lines 51-108.
CommandIds == 1..MaxCommands
\* a command the page handled before the first step
EarlierCommand == MaxCommands + 1
AllCommands == CommandIds \cup {EarlierCommand}
NoCommand ==
    [pc |-> "unused",      \* unused, delay (500 ms timer pending), fetching,
                           \* speaking (awaiting speak), reset (3000 ms timer
                           \* pending), done
     voice |-> FALSE,      \* handed over by the transcript effect
     outcome |-> "none",   \* none, reply, silent, error
     job |-> NoSpeak]      \* the speak() call of the command

\* the page's state cells, page.tsx lines 13-16, and no command handled yet
InitPage ==
    /\ listeningState = "idle"
    /\ response = NoResponse
    /\ cmds = [c \in AllCommands |-> NoCommand]

\* The page after an earlier command, if any, was answered with a reply and
\* the speech of the reply is over: the reply is displayed (lines 82-86) and
\* the 3000 ms timer of lines 92-96 is pending or has fired.
InitPageAfterCommand ==
    \E earlier \in {"unused", "reset", "done"} :
        /\ listeningState = IF earlier = "reset" THEN "responding" ELSE "idle"
        /\ response = IF earlier = "unused" THEN NoResponse ELSE EarlierCommand
        /\ cmds = [c \in AllCommands |->
                      IF c = EarlierCommand /\ earlier # "unused"
                      THEN [NoCommand EXCEPT !.pc = earlier, !.outcome = "reply"]
                      ELSE NoCommand]

Init ==
    /\ InitPage
    /\ InitHook
    /\ wake = WakeMounted
    /\ recognitions = MountedRecognitions

InitAfterCommand ==
    /\ InitPageAfterCommand
    /\ InitHook
    /\ wake = WakeMounted
    /\ recognitions = MountedRecognitions

\* the wake-word hook with a command of an earlier result in transcript, or
\* none, and any text for the engine to deliver
InitWakeWord ==
    /\ InitPage
    /\ InitHook
    /\ wake \in {[WakeMounted EXCEPT !.heard = raw, !.transcript = earlier] :
                    raw \in HeardTexts, earlier \in {<<>>, <<"o">>}}
    /\ recognitions = MountedRecognitions

\* ------------------------------------------------------------ React flush
\* Commit the pending state and run the effect of lines 112-114, whose
\* dependency list is [rawTranscript].  The effect of lines 117-132 installs
\* an onend handler that reads latestTextRef at call time, whichever render
\* installed it, so rebinding it changes nothing.
\* the ref keeps the text it had when the handler was registered
LatestTextEffectMissing == latestTextRef

LatestTextEffect ==
    IF rawTranscript # rendered.rawTranscript THEN rawTranscript ELSE latestTextRef

Render ==
    /\ ~Flushed
    /\ rendered' = Snapshot
    /\ latestTextRef' = LatestTextEffect
    /\ lastOp' = "event"
    /\ UNCHANGED <<wakeVars, pageVars, recognitionRef, eng, timers, silenceTimerRef, isListening,
                   isSpeaking, transcript, rawTranscript, error, jobs, audioRef, sess>>

\* ----------------------------------------------------- recognition events
\* the handlers without their clearTimeout
ClearSilenceTimerForgotten == timers

\* clearTimeout(silenceTimerRef.current): the pending timers that remain
ClearSilenceTimer == timers \ {silenceTimerRef}

\* setTimeout returns an id that no pending timer has
FreshTimerIds(pending) == TimerIds \ pending
NewTimerId(pending) ==
    CHOOSE id \in FreshTimerIds(pending) : \A other \in FreshTimerIds(pending) : id <= other

\* recognition.onresult, lines 50-68
onresult(raw) ==
    LET text == Trim(raw) IN
    /\ recognitionRef
    /\ eng \in {"active", "stopping"}
    /\ sess.nEvents < MaxEvents
    /\ sess.nEvents = 0 => Flushed
    /\ rawTranscript' = text
    /\ FreshTimerIds(ClearSilenceTimer) # {}
    /\ silenceTimerRef' = NewTimerId(ClearSilenceTimer)
    /\ timers' = ClearSilenceTimer \cup {NewTimerId(ClearSilenceTimer)}
    /\ sess' = [sess EXCEPT !.nEvents = @ + 1, !.lastEvt = text,
                            !.prevEvt = sess.lastEvt,
                            !.late = @ \/ eng = "stopping"]
    /\ lastOp' = "event"
    /\ UNCHANGED <<wakeVars, pageVars, recognitionRef, eng, latestTextRef, isListening, transcript,
                   error, rendered>>
    /\ UNCHANGED speechVars

\* recognition.stop(): a started engine is told to end, anything else ignores it
EngineAfterStop == IF eng = "active" THEN "stopping" ELSE eng

\* the silence timeout of lines 64-67 runs, 2500 ms after the event that armed it
SilenceTimeout(id) ==
    /\ id \in timers
    /\ Flushed
    /\ timers' = timers \ {id}
    /\ eng' = EngineAfterStop
    /\ sess' = [sess EXCEPT !.fires = @ + 1,
                            !.cause = IF eng = "active" THEN "timer" ELSE @]
    /\ lastOp' = "event"
    /\ UNCHANGED <<wakeVars, pageVars, recognitionRef, silenceTimerRef, latestTextRef, isListening,
                   transcript, rawTranscript, error, rendered>>
    /\ UNCHANGED speechVars

\* the text onend commits, line 124
FinalText == Trim(latestTextRef)

\* an onend handler that starts the engine again while listening
EngineAfterEndRestarted == IF isListening THEN "active" ELSE "idle"

\* the engine after onend, lines 117-132: the handler does not call
\* recognition.start()
EngineAfterEnd == "idle"

\* the onend handler installed by lines 117-132
onend ==
    /\ eng = "stopping"
    /\ eng' = EngineAfterEnd
    /\ isListening' = FALSE
    /\ timers' = ClearSilenceTimer
    /\ IF FinalText # <<>>
         THEN /\ transcript' = FinalText
              /\ rawTranscript' = <<>>
         ELSE UNCHANGED <<transcript, rawTranscript>>
    /\ sess' = [sess EXCEPT !.finals = IF FinalText # <<>> THEN @ + 1 ELSE @]
    /\ lastOp' = "onend"
    /\ UNCHANGED <<wakeVars, pageVars, recognitionRef, silenceTimerRef, latestTextRef, error, rendered>>
    /\ UNCHANGED speechVars

\* an error handler that reports every error, "no-speech" included
ErrorAfterAllSurfaced(kind) == IF kind = "aborted" THEN error ELSE ErrorMsg(kind)

\* an error handler that reports no error at all
ErrorAfterSwallowed(kind) == error

\* the error field after recognition.onerror, lines 85-91
ErrorAfter(kind) ==
    IF kind \in {"aborted", "no-speech"} THEN error ELSE ErrorMsg(kind)

\* an error handler without the early return for "aborted"
ListeningAfterAlwaysReset(kind) == FALSE

\* isListening after recognition.onerror, lines 85-92
ListeningAfter(kind) == IF kind = "aborted" THEN isListening ELSE FALSE

\* recognition.onerror, lines 84-93; the engine ends the capture after an error
onerror(kind) ==
    /\ eng = "active"
    /\ eng' = "stopping"
    /\ error' = ErrorAfter(kind)
    /\ isListening' = ListeningAfter(kind)
    /\ sess' = [sess EXCEPT !.cause = kind]
    /\ lastOp' = "event"
    /\ UNCHANGED <<wakeVars, pageVars, recognitionRef, timers, silenceTimerRef, latestTextRef,
                   transcript, rawTranscript, rendered>>
    /\ UNCHANGED speechVars

\* the engine ends the capture on its own (no handler runs until onend)
EngineEnds ==
    /\ eng = "active"
    /\ eng' = "stopping"
    /\ sess' = [sess EXCEPT !.cause = "engine"]
    /\ lastOp' = "event"
    /\ UNCHANGED <<wakeVars, pageVars, recognitionRef, timers, silenceTimerRef, latestTextRef,
                   isListening, transcript, rawTranscript, error, rendered>>
    /\ UNCHANGED speechVars

\* ----------------------------------------------------------------- speech
\* the Audio elements that are playing
Playing == {i \in JobIds : jobs[i].phase = "playing"}

\* audioRef.current.pause() of lines 229-233: a playing element stops; an
\* element that has not started playing is not affected and keeps its handlers
PauseAudio(js, ref) ==
    [i \in JobIds |->
        IF i = ref /\ js[i].phase = "playing" THEN [js[i] EXCEPT !.phase = "paused"]
        ELSE js[i]]

\* cancelSpeech, lines 228-238, as a function of the jobs and audioRef
CancelledJobs(js, ref) ==
    [i \in JobIds |->
        IF js[i].phase = "unused" THEN js[i]
        ELSE [PauseAudio(js, ref)[i] EXCEPT !.cancelled = TRUE]]

\* a cancelSpeech written as a toggle of the speaking flag
cancelSpeechToggle ==
    /\ jobs' = CancelledJobs(jobs, audioRef)
    /\ audioRef' = NoAudio
    /\ isSpeaking' = ~isSpeaking
    /\ lastOp' = "cancelSpeech"
    /\ UNCHANGED <<wakeVars, pageVars, recognitionRef, rendered, sess>>
    /\ UNCHANGED captureVars

kuro_cancelSpeech ==
    /\ jobs' = CancelledJobs(jobs, audioRef)
    /\ audioRef' = NoAudio
    /\ isSpeaking' = FALSE
    /\ lastOp' = "cancelSpeech"
    /\ UNCHANGED <<wakeVars, recognitionRef, rendered, sess>>
    /\ UNCHANGED captureVars

\* cancelSpeech called by a component that leaves the page state alone
cancelSpeech ==
    /\ kuro_cancelSpeech
    /\ UNCHANGED pageVars

UnusedJobs == {i \in JobIds : jobs[i].phase = "unused"}

\* speak, lines 172-183: up to the await of the TTS request
kuro_speak ==
    /\ UnusedJobs # {}
    /\ LET i == CHOOSE j \in UnusedJobs : \A k \in UnusedJobs : j <= k
       IN  jobs' = [CancelledJobs(jobs, audioRef) EXCEPT ![i].phase = "fetching"]
    /\ audioRef' = NoAudio
    /\ isSpeaking' = TRUE
    /\ lastOp' = "speak"
    /\ UNCHANGED <<wakeVars, recognitionRef, rendered, sess>>
    /\ UNCHANGED captureVars

\* speak called by a component that leaves the page state alone
speak ==
    /\ kuro_speak
    /\ UNCHANGED pageVars

\* promise resolution: the first resolve() wins
Resolve(job, value) ==
    IF job.resolved = "pending" THEN [job EXCEPT !.resolved = value] ELSE job

\* a catch block that leaves the promise of speak() pending
TtsFailedHangs(job) == [job EXCEPT !.phase = "failed"]

\* the catch block of speak(), lines 220-224: resolve(0)
TtsFailed(job) == Resolve([job EXCEPT !.phase = "failed"], "zero")

\* the TTS response arrives, lines 185-218, or the request fails, lines 220-224
TtsResponse(i, ok) ==
    /\ jobs[i].phase = "fetching"
    /\ Flushed
    /\ IF ok
         THEN /\ jobs' = [jobs EXCEPT ![i].phase = "loading", ![i].urlLive = TRUE,
                                      ![i].fallback = TRUE]
              /\ audioRef' = i
              /\ UNCHANGED isSpeaking
         ELSE /\ jobs' = [jobs EXCEPT ![i] = TtsFailed(@)]
              /\ isSpeaking' = FALSE
              /\ UNCHANGED audioRef
    /\ lastOp' = "event"
    /\ UNCHANGED <<wakeVars, pageVars, recognitionRef, rendered, sess>>
    /\ UNCHANGED captureVars

\* audio.onloadedmetadata, lines 193-200; play() may be rejected by the browser
onloadedmetadata(i, playOk) ==
    /\ jobs[i].phase = "loading"
    /\ jobs' = [jobs EXCEPT ![i] =
                   Resolve([@ EXCEPT !.meta = TRUE,
                                     !.phase = IF playOk THEN "playing" ELSE "blocked"],
                           "duration")]
    /\ lastOp' = "event"
    /\ UNCHANGED <<wakeVars, pageVars, recognitionRef, rendered, sess, isSpeaking, audioRef>>
    /\ UNCHANGED captureVars

\* audio.onended, lines 202-206
onended(i) ==
    /\ jobs[i].phase = "playing"
    /\ jobs' = [jobs EXCEPT ![i].phase = "ended", ![i].urlLive = FALSE]
    /\ isSpeaking' = FALSE
    /\ audioRef' = NoAudio
    /\ lastOp' = "event"
    /\ UNCHANGED <<wakeVars, pageVars, recognitionRef, rendered, sess>>
    /\ UNCHANGED captureVars

\* audio.onerror, lines 208-213
audioOnerror(i) ==
    /\ jobs[i].phase \in {"loading", "playing"}
    /\ jobs' = [jobs EXCEPT ![i] = Resolve([@ EXCEPT !.phase = "error"], "zero")]
    /\ isSpeaking' = FALSE
    /\ audioRef' = NoAudio
    /\ lastOp' = "event"
    /\ UNCHANGED <<wakeVars, pageVars, recognitionRef, rendered, sess>>
    /\ UNCHANGED captureVars

\* a fallback timeout that resolves nothing
AfterFallbackSilent(job) == [job EXCEPT !.fallback = FALSE]

\* the callback of the fallback timeout, line 217: if (!audio.duration) resolve(0)
AfterFallback(job) ==
    IF ~job.meta THEN Resolve([job EXCEPT !.fallback = FALSE], "zero")
    ELSE [job EXCEPT !.fallback = FALSE]

\* the fallback timeout of lines 216-218 runs, 5000 ms after the audio was created
FallbackTimeout(i) ==
    /\ jobs[i].fallback
    /\ Flushed
    /\ jobs' = [jobs EXCEPT ![i] = AfterFallback(@)]
    /\ lastOp' = "event"
    /\ UNCHANGED <<wakeVars, pageVars, recognitionRef, rendered, sess, isSpeaking, audioRef>>
    /\ UNCHANGED captureVars

\* ------------------------------------------------------ start() and stop()

\* an engine that begins a capture on every recognition.start()
StartNeverThrows == FALSE

\* recognition.start() of line 148 throws, into the catch of lines 151-159,
\* when the engine is started already or is still ending its capture
StartThrows == eng # "idle"

\* start, lines 137-163.  The closure reads isSpeaking of the last render.
\* recognition.start() throws when the engine is already started; whether the
\* message contains 'already started' depends on the browser (chromeMsg).
kuro_start(chromeMsg) ==
    /\ IF rendered.isSpeaking
         THEN /\ jobs' = CancelledJobs(jobs, audioRef)
              /\ audioRef' = NoAudio
              /\ isSpeaking' = FALSE
         ELSE UNCHANGED speechVars
    /\ IF recognitionRef
         THEN /\ transcript' = <<>>
              /\ rawTranscript' = <<>>
              /\ latestTextRef' = <<>>
              /\ IF ~StartThrows
                   THEN /\ eng' = "active"
                        /\ error' = Null
                        /\ isListening' = TRUE
                        /\ sess' = [NewSession EXCEPT !.playing = Playing # {}]
                   ELSE /\ UNCHANGED eng
                        /\ error' = IF chromeMsg THEN Null ELSE StartFailedMsg
                        /\ isListening' = chromeMsg
                        /\ sess' = [sess EXCEPT !.restarted = TRUE,
                                                !.stale = @ \/ eng = "stopping",
                                                !.playing = Playing # {}]
         ELSE /\ UNCHANGED <<transcript, rawTranscript, latestTextRef, eng, error,
                             isListening>>
              /\ sess' = [sess EXCEPT !.playing = Playing # {}]
    /\ lastOp' = "start"
    /\ UNCHANGED <<wakeVars, recognitionRef, timers, silenceTimerRef, rendered>>

\* start called by a component that leaves the page state alone
start(chromeMsg) ==
    /\ kuro_start(chromeMsg)
    /\ UNCHANGED pageVars

\* a stop that also resets the finalized command and the error
stopResetting ==
    /\ IF recognitionRef
         THEN /\ eng' = EngineAfterStop
              /\ isListening' = FALSE
              /\ transcript' = <<>>
              /\ error' = Null
         ELSE UNCHANGED <<eng, isListening, transcript, error>>
    /\ sess' = [sess EXCEPT !.cause = IF recognitionRef /\ eng = "active" THEN "stop" ELSE @]
    /\ lastOp' = "stop"
    /\ UNCHANGED <<wakeVars, pageVars, recognitionRef, timers, silenceTimerRef, latestTextRef,
                   rawTranscript, rendered>>
    /\ UNCHANGED speechVars

\* stop, lines 165-170
kuro_stop ==
    /\ IF recognitionRef
         THEN /\ eng' = EngineAfterStop
              /\ isListening' = FALSE
         ELSE UNCHANGED <<eng, isListening>>
    /\ sess' = [sess EXCEPT !.cause = IF recognitionRef /\ eng = "active" THEN "stop" ELSE @]
    /\ lastOp' = "stop"
    /\ UNCHANGED <<wakeVars, recognitionRef, timers, silenceTimerRef, latestTextRef,
                   transcript, rawTranscript, error, rendered>>
    /\ UNCHANGED speechVars

\* stop called by a component that leaves the page state alone
stop ==
    /\ kuro_stop
    /\ UNCHANGED pageVars

\* ------------------------------------------------ wake-word hook: actions
FreeRecognitions == {r \in RecognitionIds : recognitions[r].eng = "none"}

\* recognition.stop() on one recognition object
StoppedRecognition(rec) ==
    IF rec.eng = "active" THEN [rec EXCEPT !.eng = "stopping"] ELSE rec

\* start of the wake-word hook, lines 87-99; the closure reads the isListening
\* of the last render
wakeStart ==
    /\ ~wake.rendered
    /\ FreeRecognitions # {}
    /\ IF recognitions[wake.recognitionRef].eng = "idle"
         THEN /\ recognitions' = [recognitions EXCEPT ![wake.recognitionRef].eng = "active"]
              /\ wake' = [wake EXCEPT !.isListening = TRUE, !.error = Null]
         ELSE /\ wake' = [wake EXCEPT !.error = StartFailedMsg]
              /\ UNCHANGED recognitions
    /\ UNCHANGED <<hookVars, pageVars>>

\* stop of the wake-word hook, lines 101-107
wakeStop ==
    /\ wake.rendered
    /\ FreeRecognitions # {}
    /\ recognitions' = [recognitions EXCEPT ![wake.recognitionRef] = StoppedRecognition(@)]
    /\ wake' = [wake EXCEPT !.isListening = FALSE]
    /\ UNCHANGED <<hookVars, pageVars>>

\* a render with a changed isListening: the cleanup of lines 80-84 stops the
\* object in recognitionRef, then the effect of lines 22-78 creates another
\* object, whose handlers see the new isListening, and stores it in the ref
wakeRender ==
    /\ wake.rendered # wake.isListening
    /\ FreeRecognitions # {}
    /\ LET new == CHOOSE r \in FreeRecognitions : \A q \in FreeRecognitions : r <= q
       IN  /\ recognitions' =
                 [recognitions EXCEPT ![wake.recognitionRef] = StoppedRecognition(@),
                                      ![new] = NewRecognition(wake.isListening)]
           /\ wake' = [wake EXCEPT !.rendered = wake.isListening,
                                   !.recognitionRef = new]
    /\ UNCHANGED <<hookVars, pageVars>>

\* the letter c in either case
CaseVariants(c) == IF c = "k" THEN {"k", "K"} ELSE {c}

\* the wake word, in any mix of cases, stands at position i of the text
WakeWordAt(text, i) ==
    /\ i + Len(WakeWord) - 1 <= Len(text)
    /\ \A j \in 1..Len(WakeWord) : text[i + j - 1] \in CaseVariants(WakeWord[j])

\* the text carries the wake word
HasWakeWord(text) == \E i \in 1..Len(text) : WakeWordAt(text, i)

\* a handler that looks for the last occurrence of the wake word
CommandAfterLastWakeWord(text) ==
    LET found == Occurrences(ToLowerCase(text), WakeWord)
        last == CHOOSE i \in found : \A j \in found : j <= i
    IN  Trim(Substring(text, last + 4))

\* the command of lines 51-52: what follows the wake word, trimmed
CommandAfterWakeWord(text) ==
    Trim(Substring(text, IndexOf(ToLowerCase(text), WakeWord) + 4))

\* transcript after recognition.onresult, lines 42-61
TranscriptAfterResult(raw) ==
    LET text == Trim(raw) IN
    IF Includes(ToLowerCase(text), WakeWord) THEN CommandAfterWakeWord(text)
    ELSE wake.transcript

\* recognition.onresult of the wake-word hook, lines 41-62
wakeOnresult(r, raw) ==
    /\ recognitions[r].eng \in {"active", "stopping"}
    /\ wake.nResults < MaxEvents
    /\ wake' = [wake EXCEPT !.transcript = TranscriptAfterResult(raw),
                            !.nResults = @ + 1]
    /\ UNCHANGED recognitions
    /\ UNCHANGED <<hookVars, pageVars>>

\* recognition.onerror of the wake-word hook, lines 64-67; the engine ends the
\* capture after an error
wakeOnerror(r, kind) ==
    /\ recognitions[r].eng = "active"
    /\ recognitions' = [recognitions EXCEPT ![r].eng = "stopping"]
    /\ wake' = [wake EXCEPT !.error = "Recognition error: " \o kind]
    /\ UNCHANGED <<hookVars, pageVars>>

\* an onend handler that reads the current isListening
RestartsCurrent(rec) == wake.isListening

\* the test of line 71: the isListening of the render that created the object
Restarts(rec) == rec.sees

\* recognition.onend of the wake-word hook, lines 69-75
wakeOnend(r) ==
    /\ recognitions[r].eng = "stopping"
    /\ recognitions' = [recognitions EXCEPT
                           ![r].eng = IF Restarts(recognitions[r]) THEN "active" ELSE "idle"]
    /\ UNCHANGED wake
    /\ UNCHANGED <<hookVars, pageVars>>

\* the engine ends a capture by itself
wakeEngineEnds(r) ==
    /\ recognitions[r].eng = "active"
    /\ recognitions' = [recognitions EXCEPT ![r].eng = "stopping"]
    /\ UNCHANGED wake
    /\ UNCHANGED <<hookVars, pageVars>>

\* ------------------------------------------------------ page: actions
\* what a step of the page that calls no operation of the hook leaves alone
hookCells == <<recognitionRef, eng, timers, silenceTimerRef, latestTextRef,
               isListening, isSpeaking, transcript, rawTranscript, error,
               rendered, jobs, audioRef, sess>>

FreeCommands == {c \in CommandIds : cmds[c].pc = "unused"}
NewCommandId == CHOOSE c \in FreeCommands : \A d \in FreeCommands : c <= d
NewJobId == CHOOSE j \in UnusedJobs : \A k \in UnusedJobs : j <= k

\* handleCommand, lines 51-57: up to the 500 ms timer
Submitted(voice) ==
    [cmds EXCEPT ![NewCommandId] = [NoCommand EXCEPT !.pc = "delay", !.voice = voice]]

\* the effect of lines 33-38, dependency list [kuro.transcript]
TranscriptEffectRuns == transcript # rendered.transcript /\ transcript # <<>>

\* the effect of lines 40-49, dependency list [kuro.isListening, listeningState]
SafetyEffectRuns ==
    /\ isListening # rendered.isListening \/ listeningState # rendered.listeningState
    /\ ~isListening
    /\ listeningState \notin {"idle", "processing", "responding"}

\* Commit the pending state of the hook and of the page and run the effects
\* whose dependencies changed, in the order of the source: the hook's effect,
\* the transcript effect, the safety effect.
PageRender ==
    /\ ~Flushed
    /\ TranscriptEffectRuns => FreeCommands # {}
    /\ rendered' = Snapshot
    /\ latestTextRef' = LatestTextEffect
    /\ cmds' = IF TranscriptEffectRuns THEN Submitted(TRUE) ELSE cmds
    /\ listeningState' = IF SafetyEffectRuns THEN "idle"
                         ELSE IF TranscriptEffectRuns THEN "wake-word-detected"
                         ELSE listeningState
    /\ lastOp' = "event"
    /\ UNCHANGED <<wakeVars, response, recognitionRef, eng, timers, silenceTimerRef,
                   isListening, isSpeaking, transcript, rawTranscript, error, jobs,
                   audioRef, sess>>

\* the input and the buttons of the dock, KuroCommandDock.tsx lines 222-247
DockDisabled == rendered.listeningState = "processing"

\* handleTextSubmit, lines 110-112, with a text that is not blank
handleTextSubmit ==
    /\ ~DockDisabled
    /\ FreeCommands # {}
    /\ cmds' = Submitted(FALSE)
    /\ listeningState' = "wake-word-detected"
    /\ lastOp' = "event"
    /\ UNCHANGED <<wakeVars, hookCells, response>>

\* the 500 ms timer of handleCommand fires, lines 59-68: the request is sent
DelayElapsed(c) ==
    /\ cmds[c].pc = "delay"
    /\ Flushed
    /\ cmds' = [cmds EXCEPT ![c].pc = "fetching"]
    /\ listeningState' = "processing"
    /\ lastOp' = "event"
    /\ UNCHANGED <<wakeVars, hookCells, response>>

BackendOutcomes == {"reply", "silent", "error"}

\* the request of handleCommand completes, lines 70-106: with a reply, with
\* no reply (a silent action), or with a failure
BackendResponse(c, outcome) ==
    /\ cmds[c].pc = "fetching"
    /\ Flushed
    /\ CASE outcome = "reply" ->
              /\ kuro_speak
              /\ cmds' = [cmds EXCEPT ![c].pc = "speaking", ![c].outcome = outcome,
                                      ![c].job = NewJobId]
              /\ UNCHANGED <<listeningState, response>>
         [] outcome = "silent" ->
              /\ cmds' = [cmds EXCEPT ![c].pc = "reset", ![c].outcome = outcome]
              /\ listeningState' = "idle"
              /\ lastOp' = "event"
              /\ UNCHANGED <<wakeVars, hookCells, response>>
         [] outcome = "error" ->
              /\ kuro_speak
              /\ cmds' = [cmds EXCEPT ![c].pc = "done", ![c].outcome = outcome,
                                      ![c].job = NewJobId]
              /\ listeningState' = "idle"
              /\ UNCHANGED response

\* a handler that does not await speak() before it reveals the reply
SpeakNotAwaited(c) ==
    /\ cmds[c].pc = "speaking"
    /\ response' = c
    /\ listeningState' = "responding"
    /\ cmds' = [cmds EXCEPT ![c].pc = "reset"]
    /\ lastOp' = "event"
    /\ UNCHANGED <<wakeVars, hookCells>>

\* the promise of `await kuro.speak(data.reply)` is resolved, lines 82-86
SpeakResolved(c) ==
    /\ cmds[c].pc = "speaking"
    /\ jobs[cmds[c].job].resolved # "pending"
    /\ response' = c
    /\ listeningState' = "responding"
    /\ cmds' = [cmds EXCEPT ![c].pc = "reset"]
    /\ lastOp' = "event"
    /\ UNCHANGED <<wakeVars, hookCells>>

\* the 3000 ms timer of handleCommand fires, lines 92-96
VisualReset(c) ==
    /\ cmds[c].pc = "reset"
    /\ Flushed
    /\ listeningState' = "idle"
    /\ cmds' = [cmds EXCEPT ![c].pc = "done"]
    /\ lastOp' = "event"
    /\ UNCHANGED <<wakeVars, hookCells, response>>

\* onClose of the result card, lines 160-169
onClose ==
    /\ response # NoResponse
    /\ response' = NoResponse
    /\ lastOp' = "event"
    /\ UNCHANGED <<wakeVars, hookCells, listeningState, cmds>>

\* a toggle that does not look at isSpeaking
handleToggleListeningMicOnly(chromeMsg) ==
    /\ ~DockDisabled
    /\ IF rendered.isListening
         THEN /\ kuro_stop
              /\ listeningState' = "idle"
              /\ UNCHANGED <<response, cmds>>
         ELSE /\ kuro_start(chromeMsg)
              /\ response' = NoResponse
              /\ UNCHANGED <<listeningState, cmds>>

\* handleToggleListening, lines 114-131.  The closure reads isSpeaking and
\* isListening of the last render.
handleToggleListening(chromeMsg) ==
    /\ ~DockDisabled
    /\ IF rendered.isSpeaking
         THEN /\ kuro_cancelSpeech
              /\ UNCHANGED pageVars
         ELSE IF rendered.isListening
         THEN /\ kuro_stop
              /\ listeningState' = "idle"
              /\ UNCHANGED <<response, cmds>>
         ELSE /\ kuro_start(chromeMsg)
              /\ response' = NoResponse
              /\ UNCHANGED <<listeningState, cmds>>

\* ---------------------------------------------------------- specifications
CaptureEvents ==
    \/ \E raw \in RawTexts : onresult(raw)
    \/ \E id \in TimerIds : SilenceTimeout(id)
    \/ onend
    \/ \E kind \in ErrorKinds : onerror(kind)
    \/ EngineEnds

SpeechEvents ==
    \/ \E i \in JobIds, ok \in BOOLEAN : TtsResponse(i, ok)
    \/ \E i \in JobIds, playOk \in BOOLEAN : onloadedmetadata(i, playOk)
    \/ \E i \in JobIds : onended(i)
    \/ \E i \in JobIds : audioOnerror(i)
    \/ \E i \in JobIds : FallbackTimeout(i)

Calls ==
    \/ \E chromeMsg \in BOOLEAN : start(chromeMsg)
    \/ stop

\* the speech side alone: speak(), cancelSpeech() and the audio elements
NextPlayback == Render \/ speak \/ cancelSpeech \/ SpeechEvents
SpecPlayback == Init /\ [][NextPlayback]_vars

\* the capture side: start(), stop() and the recognition engine
NextCapture == Render \/ Calls \/ CaptureEvents
SpecCapture == Init /\ [][NextCapture]_vars

\* the speech side: speak(), cancelSpeech(), the audio elements, and the
\* capture engine without its transcript events
NextSpeech == Render \/ Calls \/ speak \/ cancelSpeech \/ SpeechEvents \/ onend \/ EngineEnds
SpecSpeech == Init /\ [][NextSpeech]_vars

\* the wake-word hook: start(), stop(), renders and the engine
NextWake ==
    \/ wakeStart
    \/ wakeStop
    \/ wakeRender
    \/ \E r \in RecognitionIds : wakeOnend(r)
    \/ \E r \in RecognitionIds, kind \in ErrorKinds : wakeOnerror(r, kind)
    \/ \E r \in RecognitionIds : wakeEngineEnds(r)
SpecWake == Init /\ [][NextWake]_vars

\* the wake-word hook: the results of a started capture
NextWakeWord ==
    \/ wakeStart
    \/ wakeRender
    \/ \E r \in RecognitionIds : wakeOnresult(r, wake.heard)
SpecWakeWord == InitWakeWord /\ [][NextWakeWord]_vars

CommandSteps ==
    \/ \E c \in CommandIds : DelayElapsed(c)
    \/ \E c \in CommandIds, outcome \in BackendOutcomes : BackendResponse(c, outcome)
    \/ \E c \in CommandIds : SpeakResolved(c)
    \/ \E c \in AllCommands : VisualReset(c)

\* the page handling typed commands: the request, the spoken reply, the
\* result card
NextPageCommand == PageRender \/ handleTextSubmit \/ onClose \/ CommandSteps \/ SpeechEvents
SpecPageCommand == InitAfterCommand /\ [][NextPageCommand]_vars

Toggle == \E chromeMsg \in BOOLEAN : handleToggleListening(chromeMsg)

\* handleCommand up to the call of speak()
RequestSteps ==
    \/ \E c \in CommandIds : DelayElapsed(c)
    \/ \E c \in CommandIds, outcome \in BackendOutcomes : BackendResponse(c, outcome)
    \/ \E c \in AllCommands : VisualReset(c)

\* the audio of a reply up to the start of its playback
StartingEvents ==
    \/ \E i \in JobIds, ok \in BOOLEAN : TtsResponse(i, ok)
    \/ \E i \in JobIds, playOk \in BOOLEAN : onloadedmetadata(i, playOk)

\* the mic button: typed commands whose reply is spoken, the audio up to its
\* playback, and captures started and stopped by the button
NextPageToggle ==
    PageRender \/ Toggle \/ handleTextSubmit \/ RequestSteps \/ StartingEvents \/ onend \/ EngineEnds
SpecPageToggle == InitAfterCommand /\ [][NextPageToggle]_vars

\* voice commands: captures started and stopped by the mic button, the
\* recognition engine, and the requests of the finalized commands
NextPageVoice == PageRender \/ Toggle \/ RequestSteps \/ CaptureEvents
SpecPageVoice == Init /\ [][NextPageVoice]_vars

Next == Render \/ Calls \/ speak \/ cancelSpeech \/ CaptureEvents \/ SpeechEvents
Spec == Init /\ [][Next]_vars

\* ------------------------------------------------------------ properties
\* the capture-ended notification has just been processed for a session in
\* which at least one recognition event was delivered
EndedWithEvents == lastOp = "onend" /\ sess.lastEvt # NoEvent

\* C1: whatever ended the session, the command committed by onend is the
\* trimmed text of the last recognition event delivered before it.
C1_FinalIsLastEvent == EndedWithEvents => transcript = sess.lastEvt

\* the session was ended by the silence timeout alone: no event after it, no
\* start() in between, and the last event carried text
SilenceOnly ==
    /\ EndedWithEvents
    /\ sess.cause = "timer"
    /\ ~sess.late
    /\ ~sess.restarted
    /\ sess.lastEvt # <<>>

\* C2: N >= 1 events followed by one silence period give one silence timeout,
\* one finalization, and the finalized command is the text of the last event.
C2_SilenceFinalizesOnce ==
    SilenceOnly => /\ sess.fires = 1
                   /\ sess.finals = 1
                   /\ transcript = sess.lastEvt

C2_Witness ==
    /\ SilenceOnly
    /\ sess.nEvents >= 2
    /\ sess.prevEvt \notin {NoEvent, <<>>, sess.lastEvt}
    /\ transcript = sess.lastEvt

\* C3: at most one silence timer is pending, and none once the session's
\* capture-ended notification has been processed.
C3_OneSilenceTimer ==
    /\ Cardinality(timers) <= 1
    /\ eng = "idle" => timers = {}

C3_Witness == Cardinality(timers) = 1 /\ sess.nEvents >= 2 /\ eng = "active"

\* C4: after stop() ended the capture, onend finalizes exactly the buffered
\* text (the text of the last event delivered), whatever happened in between.
C4_StopFinalizesBuffer ==
    (EndedWithEvents /\ sess.cause = "stop" /\ sess.lastEvt # <<>>)
        => transcript = sess.lastEvt

\* C5: at steady state (every state update rendered) the controller is never
\* listening and speaking at once.
C5_ListenSpeakExclusive == Flushed => ~(isListening /\ isSpeaking)

\* C6: at most one audio element is playing at any time.
C6_OnePlayback == Cardinality(Playing) <= 1

\* C7: once a playback is over (ended, cancelled or failed) its object URL
\* has been revoked.
C7_UrlsReleased ==
    \A i \in JobIds : jobs[i].phase \in {"ended", "paused", "error"} => ~jobs[i].urlLive

\* C8: start() called while an audio element is playing leaves no audio
\* playing, isSpeaking false and the controller listening.
C8_StartCancelsPlayback ==
    (lastOp = "start" /\ recognitionRef /\ sess.playing)
        => (Playing = {} /\ ~isSpeaking /\ isListening)

\* what a caller of the hook can observe, with the audio handle and the
\* state of the audio elements
Observable ==
    <<isSpeaking, isListening, transcript, rawTranscript, error, audioRef,
      [i \in JobIds |-> jobs[i].phase]>>

\* no playback is in progress or requested: the controller is not Speaking
IdlePlayback == ~isSpeaking /\ audioRef = NoAudio

\* C9 as stated: cancelSpeech() called while no audio is playing changes no
\* observable state.
C9_CancelWhenNothingPlaying ==
    [][(cancelSpeech /\ Playing = {}) => UNCHANGED Observable]_vars

\* C9 amended: cancelSpeech() called when the controller is not Speaking
\* (isSpeaking false, no audio handle held) changes no observable state, and
\* a second call right after a first changes nothing either.
C9_CancelIdempotent ==
    [][cancelSpeech =>
         /\ IdlePlayback => UNCHANGED Observable
         /\ lastOp = "cancelSpeech" => UNCHANGED Observable]_vars

C9_Witness ==
    /\ lastOp = "cancelSpeech"
    /\ jobs[1].phase = "ended"
    /\ \A i \in JobIds \ {1} : jobs[i].phase = "unused"

\* C10: right after cancelSpeech() isSpeaking is false and the audio handle
\* is released, and no audio of a speak() call issued before a cancelSpeech()
\* is playing.
C10_CancelStopsAudio ==
    /\ lastOp = "cancelSpeech" => (~isSpeaking /\ audioRef = NoAudio)
    /\ \A i \in JobIds : jobs[i].cancelled => jobs[i].phase # "playing"

\* a recognition error of this kind ended the session, and start() has not
\* been called since
EndedByError(kind) == sess.cause = kind /\ ~sess.restarted

\* C11: after a "no-speech" error the error field is still null and the
\* controller is not listening.
C11_NoSpeechAbsorbed == EndedByError("no-speech") => (error = Null /\ ~isListening)

C11_Witness == EndedByError("no-speech") /\ eng = "idle" /\ lastOp = "onend"

\* C12: after a fatal error ("network") the error field holds a message, the
\* controller is not listening, the engine session is ending or ended, and
\* once its capture-ended notification is processed no silence timer is left.
C12_FatalErrorSurfaced ==
    EndedByError("network") =>
        /\ error = ErrorMsg("network")
        /\ error # Null
        /\ ~isListening
        /\ eng # "active"
        /\ eng = "idle" => timers = {}

C12_Witness ==
    /\ EndedByError("network")
    /\ sess.nEvents >= 1
    /\ sess.fires = 0
    /\ lastOp = "onend"
    /\ timers = {}

\* C13: the handler of an "aborted" recognition error leaves error,
\* isListening, transcript and rawTranscript as they were, and the error field
\* never holds the message of an "aborted" error.
C13_AbortedIgnored ==
    /\ [][onerror("aborted") =>
            UNCHANGED <<error, isListening, transcript, rawTranscript>>]_vars
    /\ [](error # ErrorMsg("aborted"))

C13_Witness ==
    /\ sess.cause = "aborted"
    /\ eng = "stopping"
    /\ isListening
    /\ rawTranscript # <<>>
    /\ error = Null

\* the job of the latest speak() call
LatestJob(i) == jobs[i].phase # "unused" /\ \A j \in JobIds : j > i => jobs[j].phase = "unused"

\* C14: a speak() call whose TTS request failed has resolved with 0, and if
\* it is the latest speak() call the controller is not speaking; the failure
\* handler itself sets isSpeaking to false.
C14_TtsFailureResolves ==
    /\ [](\A i \in JobIds : jobs[i].phase = "failed" =>
              /\ jobs[i].resolved = "zero"
              /\ LatestJob(i) => ~isSpeaking)
    /\ [][(\E i \in JobIds : TtsResponse(i, FALSE)) => ~isSpeaking']_vars

C14_Witness ==
    \E i \in JobIds :
        /\ jobs[i].phase = "failed"
        /\ jobs[i].resolved = "zero"
        /\ LatestJob(i)
        /\ ~isSpeaking
        /\ Flushed

\* SpecPlayback with the scheduling of the browser: a pending render is
\* committed and a pending fallback timeout runs
FairSpecPlayback ==
    /\ SpecPlayback
    /\ WF_vars(Render)
    /\ \A i \in JobIds : WF_vars(FallbackTimeout(i))

\* the TTS response of this speak() call has arrived
Answered(i) == jobs[i].phase \notin {"unused", "fetching"}

\* C15: a speak() call whose TTS response has arrived resolves: its promise
\* is resolved once the fallback timeout has run, with the duration only when
\* the metadata is known, and the timeout does run, also for a call that was
\* superseded or cancelled.
C15_SpeakResolves ==
    /\ [](\A i \in JobIds :
              /\ (Answered(i) /\ ~jobs[i].fallback) => jobs[i].resolved # "pending"
              /\ jobs[i].resolved = "duration" => jobs[i].meta)
    /\ \A i \in JobIds : Answered(i) ~> (jobs[i].resolved # "pending")

C15_Witness ==
    \E i \in JobIds :
        /\ jobs[i].cancelled
        /\ jobs[i].phase = "loading"
        /\ ~jobs[i].meta
        /\ ~jobs[i].fallback
        /\ jobs[i].resolved = "zero"

\* the audio of this speak() call is playing or may still start to play
AudioPending(i) == jobs[i].phase \in {"fetching", "loading", "playing"}

\* C16: the controller is never speaking while no audio is playing or pending.
C16_SpeakingEnds == isSpeaking => \E i \in JobIds : AudioPending(i)

\* the controller is not listening and the engine captures nothing
NotCapturing == ~isListening /\ eng # "active"

\* C17: stop() called while the controller is not capturing, in particular a
\* second stop() right after a stop(), changes neither the state the hook
\* returns nor the engine, the timers or the latest-text cell: no command is
\* finalized and no error is set.
C17_StopIdempotent ==
    [][(stop /\ (NotCapturing \/ lastOp = "stop")) =>
          /\ UNCHANGED <<isListening, isSpeaking, transcript, rawTranscript, error>>
          /\ UNCHANGED <<eng, timers, silenceTimerRef, latestTextRef, jobs, audioRef>>]_vars

C17_Witness ==
    /\ recognitionRef
    /\ lastOp = "stop"
    /\ eng = "idle"
    /\ ~isListening
    /\ transcript # <<>>
    /\ sess.cause = "stop"

\* C18: the capture-ended notification promotes a buffer that is non-empty
\* after trimming to the finalized command and clears the buffer; with an empty
\* buffer it leaves the finalized command unchanged; either way the controller
\* is no longer listening.
C18_EndPromotesBuffer ==
    [][onend =>
          /\ ~isListening'
          /\ IF Trim(rawTranscript) # <<>>
               THEN transcript' = Trim(rawTranscript) /\ rawTranscript' = <<>>
               ELSE UNCHANGED transcript]_vars

\* C19: start() resets the session: right after a start() on an available
\* engine transcript, rawTranscript and the latest-text cell are empty and
\* error is null, and no text captured before that start() is finalized after
\* it.
C19_StartResetsSession ==
    /\ (lastOp = "start" /\ recognitionRef) =>
           /\ transcript = <<>>
           /\ rawTranscript = <<>>
           /\ latestTextRef = <<>>
           /\ error = Null
    /\ (sess.stale /\ eng = "idle") => transcript = <<>>

\* C20: without the speech-recognition capability the controller is never
\* listening, no capture session is started, no timer is armed, and error
\* stays the unsupported-browser message, whatever is called.
C20_CapabilityUnavailable ==
    ~recognitionRef =>
        /\ ~isListening
        /\ eng = "idle"
        /\ timers = {}
        /\ sess.nEvents = 0
        /\ error = UnsupportedMsg
        /\ error # Null

C20_Witness ==
    /\ ~recognitionRef
    /\ lastOp = "start"
    /\ error = UnsupportedMsg
    /\ Flushed

\* C21: the one engine runs at most one capture: start() called while a
\* capture is active or still ending begins no other capture (engine, events
\* delivered and timers are those of the running capture), and isListening is
\* true only while a capture exists.
C21_OneCaptureSession ==
    /\ [](isListening => eng # "idle")
    /\ [](eng = "idle" => timers = {})
    /\ [][((\E chromeMsg \in BOOLEAN : start(chromeMsg)) /\ eng # "idle") =>
              /\ UNCHANGED <<eng, timers, silenceTimerRef>>
              /\ sess'.nEvents = sess.nEvents
              /\ sess'.restarted]_vars

C21_Witness ==
    /\ lastOp = "start"
    /\ sess.restarted
    /\ sess.nEvents >= 1
    /\ eng = "active"
    /\ isListening
    /\ timers # {}

\* C22: nothing but a call of start() begins a capture, and once a capture
\* has ended nothing but start() changes the finalized command; a capture
\* finalizes at most one command.
C22_NoAutomaticRestart ==
    /\ [][(eng # "active" /\ eng' = "active") =>
              \E chromeMsg \in BOOLEAN : start(chromeMsg)]_vars
    /\ [][(eng = "idle" /\ transcript' # transcript) =>
              \E chromeMsg \in BOOLEAN : start(chromeMsg)]_vars
    /\ [](sess.finals <= 1)

C22_Witness ==
    /\ eng = "idle"
    /\ lastOp = "event"
    /\ sess.finals = 1
    /\ sess.cause = "timer"
    /\ transcript # <<>>
    /\ Flushed

\* a capture of the wake-word hook is running or about to be restarted
WakeCapturing == \E r \in RecognitionIds : recognitions[r].eng \in {"active", "stopping"}

\* C24: in the wake-word hook, once isListening is true and rendered, a
\* capture is active or being restarted.
C24_WakeListeningContinuous == (wake.isListening /\ wake.rendered) => WakeCapturing

\* the position of the first occurrence of the wake word in the text
FirstWakeWord(text) ==
    CHOOSE i \in 1..Len(text) :
        WakeWordAt(text, i) /\ \A j \in 1..(i - 1) : ~WakeWordAt(text, j)

\* what follows the first occurrence of the wake word, trimmed
FollowingWakeWord(text) ==
    Trim(SubSeq(text, FirstWakeWord(text) + Len(WakeWord), Len(text)))

\* C25: in the wake-word hook a result that carries the wake word, in any
\* case, sets transcript to the trimmed text after its first occurrence, and a
\* result without the wake word leaves transcript unchanged.
C25_WakeWordCommand ==
    [][(\E r \in RecognitionIds : wakeOnresult(r, wake.heard)) =>
          IF HasWakeWord(wake.heard)
            THEN wake'.transcript = FollowingWakeWord(wake.heard)
            ELSE wake'.transcript = wake.transcript]_vars

\* a result with text before and after the wake word was processed
C25_Witness ==
    /\ wake.nResults = 1
    /\ HasWakeWord(wake.heard)
    /\ FirstWakeWord(wake.heard) > 1
    /\ wake.transcript = <<"o">>

\* C27: a capture that a fatal recognition error ended finalizes no command:
\* its capture-ended notification does not promote the text buffered before
\* the error, transcript stays as start() cleared it.
C27_FatalErrorFinalizesNothing ==
    (EndedByError("network") /\ ~sess.late /\ eng = "idle") =>
        (transcript = <<>> /\ sess.finals = 0)

\* C28: every audio element that is playing belongs to the latest speak()
\* call and is the one audioRef refers to, and isSpeaking is true.
C28_PlayingIsCurrent ==
    \A i \in Playing : LatestJob(i) /\ audioRef = i /\ isSpeaking

\* the request of the command has been sent and has not completed
InFlight(c) == cmds[c].pc = "fetching"

\* C29: while the backend request of a command is in flight, listeningState
\* is 'processing'; no timer of an earlier command moves it to 'idle'.
C29_ProcessingWhileInFlight ==
    \A c \in AllCommands : InFlight(c) => listeningState = "processing"

\* the displayed reply of a command handled in this run is the reply of a
\* request that returned one, and the speak() call made for it has resolved
ReplyRevealedAfterSpeech ==
    \A c \in CommandIds :
        response = c => /\ cmds[c].outcome = "reply"
                        /\ cmds[c].job # NoSpeak
                        /\ jobs[cmds[c].job].resolved # "pending"

\* a response with a reply makes exactly one speak() call and reveals nothing
\* yet; no other step of the page but the failure branch calls speak()
SpeakCalledWithReply ==
    /\ (\E c \in CommandIds : BackendResponse(c, "reply")) =>
           /\ Cardinality(UnusedJobs') = Cardinality(UnusedJobs) - 1
           /\ response' = response
    /\ UnusedJobs' # UnusedJobs =>
           \E c \in CommandIds, outcome \in {"reply", "error"} : BackendResponse(c, outcome)

SilentAction == \E c \in CommandIds : BackendResponse(c, "silent")

\* C23 as stated: a reply is spoken by exactly one speak() call and revealed
\* only after that call has resolved; after a silent action speak() has not
\* been called, listeningState is idle and no response text is displayed.
C23_SilentShowsNothing ==
    /\ []ReplyRevealedAfterSpeech
    /\ [][SpeakCalledWithReply]_vars
    /\ [][SilentAction => /\ jobs' = jobs
                          /\ listeningState' = "idle"
                          /\ response' = NoResponse]_vars

\* C23: a reply is spoken by exactly one speak() call and revealed only
\* after that call has resolved; a silent action calls no speak(), sets
\* listeningState to idle and leaves the displayed response as it was.
C23_SilentLeavesResponse ==
    /\ []ReplyRevealedAfterSpeech
    /\ [][SpeakCalledWithReply]_vars
    /\ [][SilentAction => /\ jobs' = jobs
                          /\ listeningState' = "idle"
                          /\ response' = response]_vars

\* a silent action has completed while the reply of the earlier command is
\* displayed
C23_Witness ==
    /\ \E c \in CommandIds : cmds[c].outcome = "silent" /\ cmds[c].pc = "reset"
    /\ response = EarlierCommand
    /\ listeningState = "idle"
    /\ UnusedJobs = JobIds

\* the step calls start(), stop() or cancelSpeech(); in SpecPageToggle only
\* the mic button does
HookCalled == lastOp' \in {"start", "stop", "cancelSpeech"}

\* C30: a toggle of the mic button made while the page sees isSpeaking true
\* calls cancelSpeech() only and leaves isListening, transcript and the
\* displayed response unchanged; start() and stop() are called only by a
\* toggle made while the page sees isSpeaking false.
C30_ToggleWhileSpeaking ==
    /\ [][(HookCalled /\ rendered.isSpeaking) =>
              /\ lastOp' = "cancelSpeech"
              /\ isSpeaking' = FALSE
              /\ audioRef' = NoAudio
              /\ UNCHANGED <<isListening, transcript, rawTranscript, response,
                             listeningState, eng, error>>]_vars
    /\ [][lastOp' \in {"start", "stop"} => ~rendered.isSpeaking]_vars

\* the button was pressed while a reply was playing and a capture was on:
\* the audio is paused and the capture goes on
C30_Witness ==
    /\ lastOp = "cancelSpeech"
    /\ rendered.isSpeaking
    /\ ~isSpeaking
    /\ \E i \in JobIds : jobs[i].phase = "paused"
    /\ isListening
    /\ eng = "active"

\* onend has finalized a command that no render of the page has seen yet
Unsubmitted == transcript # <<>> /\ transcript # rendered.transcript

VoiceCommands == {c \in CommandIds : cmds[c].voice}

\* C26: a finalized command stays in transcript until the page has rendered
\* it, the render that sees it hands it to handleCommand once, and
\* handleCommand is called for nothing else: the command is submitted exactly
\* once.
C26_FinalizedSubmittedOnce ==
    /\ [][Unsubmitted => transcript' = transcript]_vars
    /\ [][(Unsubmitted /\ rendered'.transcript = transcript) =>
              Cardinality(VoiceCommands') = Cardinality(VoiceCommands) + 1]_vars
    /\ [][VoiceCommands' # VoiceCommands => Unsubmitted]_vars

====
